---- MODULE Spec2Model ----
(***************************************************************************)
(* Model of youtube_audio_downloader.py: the YouTubeAudioDownloader class   *)
(* (URL validation, playlist enumeration, the sequential playlist download  *)
(* loop, filename sanitisation).                                            *)
(*                                                                          *)
(* Strings of the program are sequences of one-character strings, so that   *)
(* replace / strip / slicing and the regular expressions are computed       *)
(* character by character.                                                  *)
(***************************************************************************)
EXTENDS Integers, Sequences, FiniteSets, TLC

VARIABLES
    pc,                   \* position of the running operation
    name_in,              \* _sanitize_filename: the argument
    name_out,             \* _sanitize_filename(name_in)
    name_again,           \* _sanitize_filename(name_out)
    loc,                  \* the parts the locator under test is built from
    url,                  \* the locator, as the string handed to the methods
    audio_status,         \* what download_audio(url) did
    playlist_status,      \* what download_playlist(url) did
    extractor_calls,      \* extract_info calls made by download_audio(url)
    output_dir,           \* self.output_dir, a path as its sequence of parts
    outtmpl,              \* self.ydl_opts['outtmpl']
    playlist_url,         \* download_playlist: the arguments
    max_videos,           \*   <<>> is None, <<k>> is the integer k
    delay_between_downloads,
    info,                 \* get_playlist_info: what extract_info answered
    original_output_dir,  \* download_playlist: the locals; <<>> while unbound
    playlist_info,
    videos_to_download,
    i,
    results,
    successful_downloads,
    report,               \* the dict download_playlist returned, <<>> if none
    raised,               \* the exception that left the call, "none" if none
    attempts,             \* the urls download_audio was called with, in order
    outcomes,             \* what each of those calls did
    sleeps,               \* the items after which time.sleep was called
    entry_output_dir,     \* self.output_dir when download_playlist was called
    entry_outtmpl,        \* self.ydl_opts['outtmpl'] at that moment
    platform,             \* "posix" or "windows": what os.path.getctime reads
    dir_files,            \* the files of the output directory
    output_filename,      \* download_audio: the argument, <<>> is None
    video_title,          \* download_audio: video_info['title']
    expected_final_name,  \* download_audio: the local, <<>> while unbound
    audio_result,         \* the path download_audio returned, <<>> if none
    extract_log,          \* what extract_info(url, download=True) did
    urls,                 \* download_multiple: the argument
    multi_result,         \* the list download_multiple returned, <<>> if none
    args,                 \* main: the parsed command line
    exit_code             \* the exit status of the process, <<>> while it runs

sanVars == <<name_in, name_out, name_again>>
locVars == <<loc, url, audio_status, playlist_status, extractor_calls>>
selfVars == <<output_dir, outtmpl>>
argVars == <<playlist_url, max_videos, delay_between_downloads>>
localVars == <<original_output_dir, playlist_info, videos_to_download, i,
               results, successful_downloads>>
logVars == <<attempts, outcomes, sleeps>>
entryVars == <<entry_output_dir, entry_outtmpl>>
plVars == <<selfVars, argVars, info, localVars, report, raised, logVars,
            entryVars>>
audVars == <<platform, dir_files, output_filename, video_title,
             expected_final_name, audio_result, extract_log>>
multiVars == <<urls, multi_result>>
mainVars == <<args, exit_code>>
newVars == <<audVars, multiVars, mainVars>>
vars == <<pc, sanVars, locVars, plVars, newVars>>

----------------------------------------------------------------------------
(* Bounds of the model *)

\* longest prefix / suffix placed around the filler of a generated name
MaxAffix == 2
\* most entries the extractor returns for a playlist
MaxEntries == 3
\* largest max_videos argument tried
MaxVideosArg == 3
\* most locators download_multiple is called with
MaxUrls == 3
\* latest time stamp of a file that is in the output directory beforehand
MaxStamp == 3

----------------------------------------------------------------------------
(* Generic sequence helpers *)

Min(a, b) == IF a < b THEN a ELSE b

\* all sequences over S of length 0..n
SeqsUpTo(S, n) == UNION {[1..k -> S] : k \in 0..n}

\* n copies of character c
Fill(c, n) == [k \in 1..n |-> c]

----------------------------------------------------------------------------
(* _sanitize_filename *)

\* filename[:100]
MaxNameLen == 100

\* invalid_chars = '<>:"/\\|?*'
invalid_chars == {"<", ">", ":", "\"", "/", "\\", "|", "?", "*"}

\* characters str.strip() removes
Whitespace == {" ", "\t", "\n"}

\* "Unknown_Playlist"
UnknownPlaylist ==
    <<"U","n","k","n","o","w","n","_","P","l","a","y","l","i","s","t">>

\* for char in invalid_chars: filename = filename.replace(char, '_')
ReplaceInvalid(s) ==
    [k \in 1..Len(s) |-> IF s[k] \in invalid_chars THEN "_" ELSE s[k]]

\* str.strip(): drop leading and trailing whitespace
Strip(s) ==
    LET keep == {k \in 1..Len(s) : s[k] \notin Whitespace}
    IN  IF keep = {} THEN <<>>
        ELSE LET lo == CHOOSE k \in keep : \A m \in 1..(k - 1) : s[m] \in Whitespace
                 hi == CHOOSE k \in keep :
                           \A m \in (k + 1)..Len(s) : s[m] \in Whitespace
             IN  SubSeq(s, lo, hi)

\* s[:n]
Truncate(s, n) == SubSeq(s, 1, Min(Len(s), n))

\* the mutant: the slice is dropped
StripAndLimit_NoLimit(s) == Strip(s)

\* filename.strip()[:100]
StripAndLimit(s) == Truncate(Strip(s), MaxNameLen)

\* the mutant: '*' is missing from invalid_chars
sanitize_filename_KeepsStar(filename) ==
    LET replaced == [k \in 1..Len(filename) |->
                        IF filename[k] \in invalid_chars \ {"*"}
                        THEN "_" ELSE filename[k]]
        limited  == StripAndLimit(replaced)
    IN  IF limited = <<>> THEN UnknownPlaylist ELSE limited

\* _sanitize_filename(self, filename)
sanitize_filename(filename) ==
    LET limited == StripAndLimit(ReplaceInvalid(filename))
    IN  IF limited = <<>> THEN UnknownPlaylist ELSE limited

----------------------------------------------------------------------------
(* String matching helpers for the regular expressions *)

StartsWith(s, p) == Len(s) >= Len(p) /\ SubSeq(s, 1, Len(p)) = p

Drop(s, n) == SubSeq(s, n + 1, Len(s))

\* p occurs in s at position k (its first character is s[k])
OccursAt(s, p, k) ==
    /\ k >= 1
    /\ k + Len(p) - 1 <= Len(s)
    /\ SubSeq(s, k, k + Len(p) - 1) = p

\* what can remain of a string of S after one of the alternatives matched
\* at its start
After(S, alts) ==
    { Drop(x[1], Len(x[2])) : x \in {y \in S \X alts : StartsWith(y[1], y[2])} }

\* what can remain after '.+' followed by the literal p ('.' is any
\* character but a newline)
AfterAnyThen(S, p) ==
    UNION { { Drop(s, k + Len(p)) :
                k \in {j \in 1..Len(s) :
                          /\ OccursAt(s, p, j + 1)
                          /\ \A m \in 1..j : s[m] # "\n"} }
            : s \in S }

----------------------------------------------------------------------------
(* The literals of the two URL checks *)

HTTPS == <<"h","t","t","p","s",":","/","/">>
HTTP == <<"h","t","t","p",":","/","/">>
WWW == <<"w","w","w",".">>
YOUTUBE == <<"y","o","u","t","u","b","e">>
YOUTU == <<"y","o","u","t","u">>
NOCOOKIE == <<"y","o","u","t","u","b","e","-","n","o","c","o","o","k","i","e">>
COM == <<"c","o","m">>
BE == <<"b","e">>
WATCH_V == <<"w","a","t","c","h","?","v","=">>
EMBED == <<"e","m","b","e","d","/">>
V_SLASH == <<"v","/">>
Q_V == <<"?","v","=">>
LIST_EQ == <<"l","i","s","t","=">>
YT_PLAYLIST ==
    <<"y","o","u","t","u","b","e",".","c","o","m","/",
      "p","l","a","y","l","i","s","t","?","l","i","s","t","=">>
YT_WATCH ==
    <<"y","o","u","t","u","b","e",".","c","o","m","/","w","a","t","c","h","?">>

\* [a-zA-Z0-9_-]
IdChars ==
    {"a","b","c","d","e","f","g","h","i","j","k","l","m","n","o","p","q","r",
     "s","t","u","v","w","x","y","z",
     "A","B","C","D","E","F","G","H","I","J","K","L","M","N","O","P","Q","R",
     "S","T","U","V","W","X","Y","Z",
     "0","1","2","3","4","5","6","7","8","9","_","-"}

\* the characters [^&=%\?] excludes
IdStoppers == {"&", "=", "%", "?"}

\* ([^&=%\?]{11})
VideoIdLen == 11

----------------------------------------------------------------------------
(* is_valid_youtube_url and is_playlist_url *)

\* the video id group ([^&=%\?]{11}) matches at the start of r
VideoIdAt(r) ==
    /\ Len(r) >= VideoIdLen
    /\ \A k \in 1..VideoIdLen : r[k] \notin IdStoppers

\* the strings left after the optional scheme, the optional www., the host,
\* the dot, the top-level domain and the slash have matched
AfterSite(u) ==
    LET a1 == After({u}, {HTTPS, HTTP, <<>>})
        a2 == After(a1, {WWW, <<>>})
        a3 == After(a2, {YOUTUBE, YOUTU, NOCOOKIE})
        a4 == After(a3, {<<".">>})
        a5 == After(a4, {COM, BE})
    IN  After(a5, {<<"/">>})

\* the strings left after the optional (watch\?v=|embed/|v/|.+\?v=)
AfterPathPrefix(S) ==
    After(S, {WATCH_V, EMBED, V_SLASH, <<>>}) \cup AfterAnyThen(S, Q_V)

\* the mutant: a locator that is a playlist locator is refused
is_valid_youtube_url_NotPlaylist(u) ==
    /\ \E r \in AfterPathPrefix(AfterSite(u)) : VideoIdAt(r)
    /\ ~ \E k \in 1..Len(u) :
           /\ u[k] \in {"&", "?"}
           /\ OccursAt(u, LIST_EQ, k + 1)

\* is_valid_youtube_url(self, url): youtube_regex.match(url) is not None
is_valid_youtube_url(u) ==
    \E r \in AfterPathPrefix(AfterSite(u)) : VideoIdAt(r)

\* r'[&?]list=([a-zA-Z0-9_-]+)' is found in u
HasListParam(u) ==
    \E k \in 1..Len(u) :
        /\ u[k] \in {"&", "?"}
        /\ OccursAt(u, LIST_EQ, k + 1)
        /\ k + 6 <= Len(u)
        /\ u[k + 6] \in IdChars

\* r'youtube\.com/playlist\?list=([a-zA-Z0-9_-]+)' is found in u
HasPlaylistPage(u) ==
    \E k \in 1..Len(u) :
        /\ OccursAt(u, YT_PLAYLIST, k)
        /\ k + Len(YT_PLAYLIST) <= Len(u)
        /\ u[k + Len(YT_PLAYLIST)] \in IdChars

\* r'youtube\.com/watch\?.*list=([a-zA-Z0-9_-]+)' is found in u
HasWatchList(u) ==
    \E k \in 1..Len(u) :
        /\ OccursAt(u, YT_WATCH, k)
        /\ \E j \in (k + Len(YT_WATCH))..Len(u) :
              /\ OccursAt(u, LIST_EQ, j)
              /\ j + 5 <= Len(u)
              /\ u[j + 5] \in IdChars
              /\ \A m \in (k + Len(YT_WATCH))..(j - 1) : u[m] # "\n"

\* is_playlist_url(self, url): any(re.search(pattern, url) ...)
is_playlist_url(u) == HasListParam(u) \/ HasPlaylistPage(u) \/ HasWatchList(u)

----------------------------------------------------------------------------
(* The instance and the locals of download_playlist before any call *)

DOWNLOADS == <<"d","o","w","n","l","o","a","d","s">>
MUSIC == <<"m","y","_","m","u","s","i","c">>

\* '%(title)s.%(ext)s'
TITLE_TEMPLATE ==
    <<"%","(","t","i","t","l","e",")","s",".","%","(","e","x","t",")","s">>

\* str(directory / '%(title)s.%(ext)s')
TemplateIn(directory) == Append(directory, TITLE_TEMPLATE)

NoInfo == [title |-> <<>>, videos |-> <<>>]

\* extract_info has not been asked for the playlist
NotAsked == [answer |-> "none", entries |-> <<>>]

\* main has not parsed a command line
NoArgs == [url |-> <<>>, output |-> <<>>, directory |-> <<>>,
           playlist |-> FALSE, max_videos |-> <<>>, delay |-> 1]

\* no call of download_audio or download_multiple has been made and the
\* process is not one main runs in
OthersIdle ==
    /\ platform = "posix"
    /\ dir_files = {}
    /\ output_filename = <<>>
    /\ video_title = <<>>
    /\ expected_final_name = <<>>
    /\ audio_result = <<>>
    /\ extract_log = "none"
    /\ urls = <<>>
    /\ multi_result = <<>>
    /\ args = NoArgs
    /\ exit_code = <<>>

\* no call of download_playlist has been made on the instance
PlaylistIdle ==
    /\ output_dir = <<DOWNLOADS>>
    /\ outtmpl = TemplateIn(<<DOWNLOADS>>)
    /\ playlist_url = <<>>
    /\ max_videos = <<>>
    /\ delay_between_downloads = 1
    /\ info = NotAsked
    /\ original_output_dir = <<>>
    /\ playlist_info = NoInfo
    /\ videos_to_download = <<>>
    /\ i = 0
    /\ results = <<>>
    /\ successful_downloads = 0
    /\ report = <<>>
    /\ raised = "none"
    /\ attempts = <<>>
    /\ outcomes = <<>>
    /\ sleeps = <<>>
    /\ entry_output_dir = <<>>
    /\ entry_outtmpl = <<>>

----------------------------------------------------------------------------
(* Specification of _sanitize_filename applied to generated names *)

\* no locator is under test
NoLoc == [scheme |-> <<>>, www |-> <<>>, host |-> <<>>, tld |-> <<>>,
          path |-> <<>>, id |-> <<>>, tail |-> <<>>]

\* the lengths of the filler of a generated name: none, or what brings the
\* name with its prefix and suffix to just under, at and over the limit
FillLens == {0} \cup ((MaxNameLen - MaxAffix - 1)..(MaxNameLen + 1))

\* names: prefix, a run of 'a', suffix; the prefix over one whitespace
\* character and one of the invalid characters, the suffix over these and 'a'
NameInputs ==
    UNION {
      { pre \o Fill("a", n) \o suf :
          pre \in SeqsUpTo({x[1], x[2]}, MaxAffix),
          suf \in SeqsUpTo({"a", x[1], x[2]}, MaxAffix),
          n \in FillLens }
      : x \in {<<" ", c>> : c \in invalid_chars}
                  \cup {<<"\t", "/">>, <<"\n", "_">>} }

InitSanitize ==
    /\ pc = "name"
    /\ name_in \in NameInputs
    /\ name_out = <<>>
    /\ name_again = <<>>
    /\ loc = NoLoc
    /\ url = <<>>
    /\ audio_status = "none"
    /\ playlist_status = "none"
    /\ extractor_calls = 0
    /\ PlaylistIdle
    /\ OthersIdle

\* playlist_name = self._sanitize_filename(...)
Sanitize ==
    /\ pc = "name"
    /\ name_out' = sanitize_filename(name_in)
    /\ pc' = "sanitized"
    /\ UNCHANGED <<name_in, name_again, locVars, plVars, newVars>>

\* the result handed to _sanitize_filename once more
SanitizeAgain ==
    /\ pc = "sanitized"
    /\ name_again' = sanitize_filename(name_out)
    /\ pc' = "resanitized"
    /\ UNCHANGED <<name_in, name_out, locVars, plVars, newVars>>

NextSanitize == Sanitize \/ SanitizeAgain

SpecSanitize == InitSanitize /\ [][NextSanitize]_vars

----------------------------------------------------------------------------
(* C7: _sanitize_filename is idempotent: sanitising a sanitised name gives *)
(* the same name, for every input, also inputs longer than the limit and   *)
(* inputs with whitespace anywhere.                                        *)
C7_Idempotent == pc = "resanitized" => name_again = name_out

(* C8: the output of _sanitize_filename has none of the characters         *)
(* < > : " / \ | ? *, is at most 100 characters long and is never empty;   *)
(* an empty or whitespace-only input gives the placeholder.                *)
C8_SafeName ==
    pc \in {"sanitized", "resanitized"} =>
        /\ \A k \in 1..Len(name_out) : name_out[k] \notin invalid_chars
        /\ Len(name_out) <= 100
        /\ Len(name_out) >= 1
        /\ (\A k \in 1..Len(name_in) : name_in[k] \in Whitespace)
               => name_out = UnknownPlaylist

\* a name over the limit with an invalid character has been sanitised
C8_Witness ==
    /\ pc = "sanitized"
    /\ Len(name_in) > 100
    /\ \E k \in 1..Len(name_in) : name_in[k] \in invalid_chars
    /\ Len(name_out) = 100

\* a whitespace-only name has been replaced by the placeholder
C8_WitnessPlaceholder ==
    /\ pc = "sanitized"
    /\ Len(name_in) > 0
    /\ name_out = UnknownPlaylist

----------------------------------------------------------------------------
(* Specification of the two URL checks applied to generated locators *)

FTP == <<"f","t","p",":","/","/">>
VIMEO == <<"v","i","m","e","o">>
ORG == <<"o","r","g">>
PLAYLIST_LIST == <<"p","l","a","y","l","i","s","t","?","l","i","s","t","=">>
SHARE_V == <<"s","h","a","r","e","?","v","=">>
ID_FULL == <<"a","b","c","1","2","3","4","5","6","7","8">>
ID_SHORT == <<"a","b","c","1","2","3">>
ID_LIST == <<"P","L","1","2","3">>
AMP_LIST == <<"&","l","i","s","t","=","P","L","1","2","3">>
Q_LIST == <<"?","l","i","s","t","=","P","L","1","2","3">>
AMP_PLAYLIST == <<"&","p","l","a","y","l","i","s","t","=","P","L","1","2","3">>
AMP_T == <<"&","t","=","1","0">>

\* a locator is scheme, www, host, '.', tld, '/', path, id, tail
Locators ==
    [ scheme : {<<>>, HTTPS, HTTP, FTP},
      www    : {<<>>, WWW},
      host   : {YOUTUBE, YOUTU, NOCOOKIE, VIMEO},
      tld    : {COM, BE, ORG},
      path   : {<<>>, WATCH_V, EMBED, V_SLASH, SHARE_V, PLAYLIST_LIST},
      id     : {ID_FULL, ID_SHORT, ID_LIST},
      tail   : {<<>>, AMP_LIST, Q_LIST, AMP_PLAYLIST, AMP_T} ]

LocatorString(l) ==
    l.scheme \o l.www \o l.host \o <<".">> \o l.tld \o <<"/">>
        \o l.path \o l.id \o l.tail

\* download_audio: if not self.is_valid_youtube_url(url): raise ValueError
download_audio_check(u) ==
    IF is_valid_youtube_url(u) THEN "accepted" ELSE "ValueError"

\* download_playlist: if not self.is_playlist_url(playlist_url): raise ValueError
download_playlist_check(u) ==
    IF is_playlist_url(u) THEN "accepted" ELSE "ValueError"

InitLocator ==
    /\ pc = "locator"
    /\ loc \in Locators
    /\ url = LocatorString(loc)
    /\ audio_status = "none"
    /\ playlist_status = "none"
    /\ extractor_calls = 0
    /\ name_in = <<>>
    /\ name_out = <<>>
    /\ name_again = <<>>
    /\ PlaylistIdle
    /\ OthersIdle

\* download_audio(url) refuses the locator before anything else is done
AudioRefused ==
    /\ pc = "locator"
    /\ download_audio_check(url) = "ValueError"
    /\ audio_status' = "ValueError"
    /\ pc' = "audio_done"
    /\ UNCHANGED <<loc, url, playlist_status, extractor_calls, sanVars, plVars, newVars>>

\* download_audio(url) on an accepted locator: get_video_info calls the
\* extractor, and the download calls it again unless get_video_info raised;
\* the call returns a path or raises
AudioAttempted ==
    /\ pc = "locator"
    /\ download_audio_check(url) = "accepted"
    /\ \E n \in {1, 2}, outcome \in {"returned", "Exception"} :
          /\ (outcome = "returned" => n = 2)
          /\ extractor_calls' = extractor_calls + n
          /\ audio_status' = outcome
    /\ pc' = "audio_done"
    /\ UNCHANGED <<loc, url, playlist_status, sanVars, plVars, newVars>>

\* the check download_playlist(url) opens with, on the same locator
PlaylistChecked ==
    /\ pc = "audio_done"
    /\ playlist_status' = download_playlist_check(url)
    /\ pc' = "classified"
    /\ UNCHANGED <<loc, url, audio_status, extractor_calls, sanVars, plVars, newVars>>

NextLocator == AudioRefused \/ AudioAttempted \/ PlaylistChecked

SpecLocator == InitLocator /\ [][NextLocator]_vars

\* the locator is on the hosting site: an http(s) or missing scheme, a
\* YouTube host and top-level domain
OnSite(l) ==
    /\ l.scheme \in {<<>>, HTTPS, HTTP}
    /\ l.host \in {YOUTUBE, YOUTU, NOCOOKIE}
    /\ l.tld \in {COM, BE}

----------------------------------------------------------------------------
(* get_playlist_info and download_playlist *)

\* f"https://www.youtube.com/watch?v={entry['id']}"
WATCH_URL ==
    <<"h","t","t","p","s",":","/","/","w","w","w",".",
      "y","o","u","t","u","b","e",".","c","o","m","/",
      "w","a","t","c","h","?","v","=">>

ID_STEM == <<"d","Q","w","4","w","9","W","g","X","c">>
Digits == <<"1","2","3","4","5","6","7","8","9">>
MP3 == <<".","m","p","3">>

\* what the extractor can report at position k of a playlist: None (a
\* private or deleted video), a video id, or an id download_audio refuses
EntriesAt(k) ==
    { <<>>,
      <<[id |-> Append(ID_STEM, Digits[k])]>>,
      <<[id |-> <<"x", Digits[k]>>]>> }

\* info['entries'] as the extractor can return it
EntryLists ==
    UNION { {e \in [1..n -> UNION {EntriesAt(k) : k \in 1..n}] :
                \A k \in 1..n : e[k] \in EntriesAt(k)}
            : n \in 0..MaxEntries }

\* info.get('title', ...) of the playlists tried
PlaylistTitles == { <<"M","i","x">>, <<" ","a","/","b">> }

\* the locators download_playlist is called with
PlaylistCallUrls ==
    { HTTPS \o WWW \o YT_PLAYLIST \o ID_LIST,
      WATCH_URL \o ID_FULL }

\* the videos list get_playlist_info builds: for entry in info['entries']:
\* if entry: videos.append({'url': ...})
RECURSIVE VideosOf(_)
VideosOf(entries) ==
    IF entries = <<>> THEN <<>>
    ELSE LET entry == Head(entries)
             rest  == VideosOf(Tail(entries))
         IN  IF entry # <<>>
             THEN <<[url |-> WATCH_URL \o entry[1].id]>> \o rest
             ELSE rest

\* the mutant: the slice keeps the last max_videos videos
limit_videos_Last(videos, max) ==
    IF max # <<>> /\ max[1] # 0 /\ max[1] > 0
    THEN SubSeq(videos, Len(videos) - Min(Len(videos), max[1]) + 1, Len(videos))
    ELSE videos

\* the mutant: the slice keeps one video more
limit_videos_OneMore(videos, max) ==
    IF max # <<>> /\ max[1] # 0 /\ max[1] > 0
    THEN SubSeq(videos, 1, Min(Len(videos), max[1] + 1))
    ELSE videos

\* if max_videos and max_videos > 0:
\*     videos_to_download = videos_to_download[:max_videos]
limit_videos(videos, max) ==
    IF max # <<>> /\ max[1] # 0 /\ max[1] > 0
    THEN SubSeq(videos, 1, Min(Len(videos), max[1]))
    ELSE videos

\* the mutant: the increment is missing
count_success_Forgotten(n) == n

\* successful_downloads += 1
count_success(n) == n + 1

\* the path download_audio returns for a video, in the current output_dir
FileFor(directory, video) ==
    Append(directory, SubSeq(video.url, Len(WATCH_URL) + 1, Len(video.url)) \o MP3)

\* {"video": video, "file": result, "status": "success"}
success_entry(video, file) ==
    [video |-> video, file |-> <<file>>, status |-> "success"]

\* {"video": video, "file": None, "status": "failed", "error": str(e)}
failed_entry(video) ==
    [video |-> video, file |-> <<>>, status |-> "failed"]

\* the dict download_playlist returns
report_of(pinfo, res, succ, todo, playlist_dir) ==
    [playlist_info |-> pinfo, results |-> res, successful_downloads |-> succ,
     total_videos |-> Len(todo), output_directory |-> playlist_dir]

\* the instance as __init__ leaves it
Init ==
    /\ pc = "idle"
    /\ \E d \in {DOWNLOADS, MUSIC} :
          /\ output_dir = <<d>>
          /\ outtmpl = TemplateIn(<<d>>)
    /\ playlist_url = <<>>
    /\ max_videos = <<>>
    /\ delay_between_downloads = 1
    /\ info = NotAsked
    /\ original_output_dir = <<>>
    /\ playlist_info = NoInfo
    /\ videos_to_download = <<>>
    /\ i = 0
    /\ results = <<>>
    /\ successful_downloads = 0
    /\ report = <<>>
    /\ raised = "none"
    /\ attempts = <<>>
    /\ outcomes = <<>>
    /\ sleeps = <<>>
    /\ entry_output_dir = <<>>
    /\ entry_outtmpl = <<>>
    /\ name_in = <<>>
    /\ name_out = <<>>
    /\ name_again = <<>>
    /\ loc = NoLoc
    /\ url = <<>>
    /\ audio_status = "none"
    /\ playlist_status = "none"
    /\ extractor_calls = 0
    /\ OthersIdle

\* download_playlist(playlist_url, max_videos, delay_between_downloads) is
\* called with a locator is_playlist_url refuses: ValueError, raised before
\* the try block
PlaylistRefused ==
    /\ pc = "idle"
    /\ \E u \in PlaylistCallUrls,
          m \in {<<>>} \cup {<<k>> : k \in (-1)..MaxVideosArg},
          d \in {0, 1} :
          /\ download_playlist_check(u) = "ValueError"
          /\ playlist_url' = u
          /\ max_videos' = m
          /\ delay_between_downloads' = d
    /\ entry_output_dir' = output_dir
    /\ entry_outtmpl' = outtmpl
    /\ raised' = "ValueError"
    /\ pc' = "raised"
    /\ UNCHANGED <<selfVars, info, localVars, report, logVars, sanVars, locVars, newVars>>

\* download_playlist is called with a playlist locator and goes on to
\* get_playlist_info
PlaylistCalled ==
    /\ pc = "idle"
    /\ \E u \in PlaylistCallUrls,
          m \in {<<>>} \cup {<<k>> : k \in (-1)..MaxVideosArg},
          d \in {0, 1} :
          /\ download_playlist_check(u) = "accepted"
          /\ playlist_url' = u
          /\ max_videos' = m
          /\ delay_between_downloads' = d
    /\ entry_output_dir' = output_dir
    /\ entry_outtmpl' = outtmpl
    /\ pc' = "analyzing"
    /\ UNCHANGED <<selfVars, info, localVars, report, raised, logVars, sanVars, locVars, newVars>>

\* get_playlist_info: extract_info raises, or its answer has no 'entries'
\* key; either way an Exception, which download_playlist's handler wraps
\* after restoring nothing ('original_output_dir' is not in locals())
PlaylistInfoFails ==
    /\ pc = "analyzing"
    /\ \E answer \in {"raises", "no_entries_key"} :
          info' = [answer |-> answer, entries |-> <<>>]
    /\ raised' = "Exception"
    /\ pc' = "raised"
    /\ UNCHANGED <<selfVars, argVars, localVars, report, logVars, entryVars,
                   sanVars, locVars, newVars>>

\* the interrupt arrives during get_playlist_info: KeyboardInterrupt is no
\* Exception, neither handler catches it
PlaylistInfoInterrupted ==
    /\ pc = "analyzing"
    /\ raised' = "KeyboardInterrupt"
    /\ pc' = "interrupted"
    /\ UNCHANGED <<selfVars, argVars, info, localVars, report, logVars, entryVars,
                   sanVars, locVars, newVars>>

\* get_playlist_info returns the playlist; download_playlist limits the
\* videos and is about to create the playlist's directory
PlaylistInfoReturns ==
    /\ pc = "analyzing"
    /\ \E title \in PlaylistTitles, entries \in EntryLists :
          /\ info' = [answer |-> "entries", entries |-> entries]
          /\ playlist_info' = [title |-> title, videos |-> VideosOf(entries)]
          /\ videos_to_download' = limit_videos(VideosOf(entries), max_videos)
    /\ pc' = "mkdir"
    /\ UNCHANGED <<selfVars, argVars, original_output_dir, i, results,
                   successful_downloads, report, raised, logVars, entryVars,
                   sanVars, locVars, newVars>>

\* playlist_dir.mkdir(exist_ok=True) raises (OSError): the handler finds no
\* 'original_output_dir' in locals(), restores nothing and raises Exception
PlaylistDirFails ==
    /\ pc = "mkdir"
    /\ raised' = "Exception"
    /\ pc' = "raised"
    /\ UNCHANGED <<selfVars, argVars, info, localVars, report, logVars, entryVars,
                   sanVars, locVars, newVars>>

\* the for loop has run out of videos: the output directory is restored
\* and the report returned
LoopDone(original, playlist_dir, res, succ) ==
    /\ output_dir' = original
    /\ outtmpl' = TemplateIn(original)
    /\ report' = <<report_of(playlist_info, res, succ, videos_to_download,
                             playlist_dir)>>
    /\ pc' = "returned"

\* the for loop takes the next video: download_audio is called with it
LoopNext(n) ==
    /\ i' = n
    /\ pc' = "downloading"
    /\ UNCHANGED <<selfVars, report>>

\* the directory is created and the output redirected to it; the loop starts
PlaylistDirCreated ==
    /\ pc = "mkdir"
    /\ LET playlist_name == sanitize_filename(playlist_info.title)
           playlist_dir  == Append(output_dir, playlist_name)
       IN  /\ original_output_dir' = <<output_dir>>
           /\ results' = <<>>
           /\ successful_downloads' = 0
           /\ IF videos_to_download = <<>>
              THEN /\ LoopDone(output_dir, playlist_dir, <<>>, 0)
                   /\ i' = i
              ELSE /\ output_dir' = playlist_dir
                   /\ outtmpl' = TemplateIn(playlist_dir)
                   /\ report' = report
                   /\ i' = 1
                   /\ pc' = "downloading"
    /\ UNCHANGED <<argVars, info, playlist_info, videos_to_download, raised, logVars,
                   entryVars, sanVars, locVars, newVars>>

\* download_audio(video['url']) returned a path: a success entry, the count,
\* then the pause if another video follows
ItemDownloaded ==
    /\ pc = "downloading"
    /\ LET video == videos_to_download[i]
           res   == Append(results, success_entry(video, FileFor(output_dir, video)))
           succ  == count_success(successful_downloads)
       IN  /\ download_audio_check(video.url) = "accepted"
           /\ attempts' = Append(attempts, video.url)
           /\ outcomes' = Append(outcomes, "returned")
           /\ results' = res
           /\ successful_downloads' = succ
           /\ IF delay_between_downloads > 0 /\ i < Len(videos_to_download)
              THEN /\ sleeps' = Append(sleeps, i)
                   /\ pc' = "sleeping"
                   /\ UNCHANGED <<selfVars, report, i>>
              ELSE /\ sleeps' = sleeps
                   /\ IF i < Len(videos_to_download)
                      THEN LoopNext(i + 1)
                      ELSE /\ LoopDone(original_output_dir[1], output_dir, res, succ)
                           /\ i' = i
    /\ UNCHANGED <<argVars, info, original_output_dir, playlist_info,
                   videos_to_download, raised, entryVars, sanVars, locVars, newVars>>

\* the mutant: the failure leaves the loop; the outer handler restores the
\* output directory and raises
ItemFailed_Propagates ==
    /\ pc = "downloading"
    /\ LET video == videos_to_download[i]
       IN  /\ attempts' = Append(attempts, video.url)
           /\ outcomes' = Append(outcomes, "Exception")
           /\ output_dir' = original_output_dir[1]
           /\ outtmpl' = TemplateIn(original_output_dir[1])
           /\ raised' = "Exception"
           /\ pc' = "raised"
    /\ UNCHANGED <<argVars, info, localVars, report, sleeps, entryVars, sanVars, locVars, newVars>>

\* download_audio(video['url']) raised an Exception (the ValueError of its
\* locator check, or the Exception it wraps every failure in): a failed
\* entry, and the loop continues
ItemFailed ==
    /\ pc = "downloading"
    /\ LET video == videos_to_download[i]
           res   == Append(results, failed_entry(video))
       IN  /\ attempts' = Append(attempts, video.url)
           /\ outcomes' = Append(outcomes,
                  IF download_audio_check(video.url) = "ValueError"
                  THEN "ValueError" ELSE "Exception")
           /\ results' = res
           /\ IF i < Len(videos_to_download)
              THEN LoopNext(i + 1)
              ELSE /\ LoopDone(original_output_dir[1], output_dir, res,
                               successful_downloads)
                   /\ i' = i
    /\ UNCHANGED <<argVars, info, original_output_dir, playlist_info,
                   videos_to_download, successful_downloads, raised, sleeps,
                   entryVars, sanVars, locVars, newVars>>

\* the interrupt arrives while download_audio runs: KeyboardInterrupt is
\* caught neither by the loop's 'except Exception' nor by the outer one
ItemInterrupted ==
    /\ pc = "downloading"
    /\ LET video == videos_to_download[i]
       IN  /\ download_audio_check(video.url) = "accepted"
           /\ attempts' = Append(attempts, video.url)
           /\ outcomes' = Append(outcomes, "KeyboardInterrupt")
    /\ raised' = "KeyboardInterrupt"
    /\ pc' = "interrupted"
    /\ UNCHANGED <<selfVars, argVars, info, localVars, report, sleeps, entryVars,
                   sanVars, locVars, newVars>>

\* time.sleep(delay_between_downloads) returns: the next video
SleepOver ==
    /\ pc = "sleeping"
    /\ LoopNext(i + 1)
    /\ UNCHANGED <<argVars, info, original_output_dir, playlist_info,
                   videos_to_download, results, successful_downloads, raised,
                   logVars, entryVars, sanVars, locVars, newVars>>

\* the interrupt arrives during time.sleep
SleepInterrupted ==
    /\ pc = "sleeping"
    /\ raised' = "KeyboardInterrupt"
    /\ pc' = "interrupted"
    /\ UNCHANGED <<selfVars, argVars, info, localVars, report, logVars, entryVars,
                   sanVars, locVars, newVars>>

Next ==
    \/ PlaylistRefused
    \/ PlaylistCalled
    \/ PlaylistInfoFails
    \/ PlaylistInfoInterrupted
    \/ PlaylistInfoReturns
    \/ PlaylistDirFails
    \/ PlaylistDirCreated
    \/ ItemDownloaded
    \/ ItemFailed
    \/ ItemInterrupted
    \/ SleepOver
    \/ SleepInterrupted

Spec == Init /\ [][Next]_vars

----------------------------------------------------------------------------
(* Claims about download_playlist and get_playlist_info *)

\* max_videos was given and is positive
MaxGiven == max_videos # <<>> /\ max_videos[1] > 0

\* the number of entries of a result list with the given status
CountStatus(res, status) ==
    Cardinality({k \in 1..Len(res) : res[k].status = status})

\* the urls of a list of videos
UrlsOf(videos) == [k \in 1..Len(videos) |-> videos[k].url]

(* C1: in every report download_playlist returns, total_videos equals the  *)
(* length of results, and equals min(N, max_videos) when max_videos is     *)
(* given and positive and N otherwise, N being the number of videos of the *)
(* playlist.                                                               *)
C1_TotalAttempted ==
    pc = "returned" =>
        LET r == report[1]
            N == Len(r.playlist_info.videos)
        IN  /\ r.total_videos = Len(r.results)
            /\ r.total_videos = IF MaxGiven THEN Min(N, max_videos[1]) ELSE N

\* a report came back for a playlist longer than a positive max_videos
C1_Witness ==
    /\ pc = "returned"
    /\ MaxGiven
    /\ max_videos[1] < Len(report[1].playlist_info.videos)
    /\ report[1].total_videos = max_videos[1]

(* C2: in every report, successful_downloads is the number of results with *)
(* status success, and together with the number of results with status     *)
(* failed it makes total_videos.                                           *)
C2_SuccessCount ==
    pc = "returned" =>
        LET r == report[1]
        IN  /\ r.successful_downloads = CountStatus(r.results, "success")
            /\ r.successful_downloads + CountStatus(r.results, "failed")
                   = r.total_videos

\* a report with both successes and failures
C2_Witness ==
    /\ pc = "returned"
    /\ report[1].successful_downloads >= 1
    /\ CountStatus(report[1].results, "failed") >= 1

(* C3: once the playlist is fetched and its directory created, an error    *)
(* raised by download_audio for video k is recorded as the failed result   *)
(* of video k, does not leave download_playlist, and does not keep         *)
(* download_audio from being called for each later video.                  *)
C3_FailureContained ==
    \A k \in 1..Len(outcomes) :
        outcomes[k] \in {"Exception", "ValueError"} =>
            /\ Len(results) >= k
            /\ results[k].status = "failed"
            /\ results[k].video = videos_to_download[k]
            /\ pc # "raised"
            /\ (pc = "returned" => attempts = UrlsOf(videos_to_download))
            /\ (pc = "downloading" => i > k)

\* a failure of an earlier video, a later video downloaded, the report back
C3_Witness ==
    /\ pc = "returned"
    /\ \E k \in 1..Len(outcomes) :
          /\ outcomes[k] = "Exception"
          /\ \E m \in (k + 1)..Len(outcomes) : outcomes[m] = "returned"

(* C4: with N videos and max_videos = k, 0 < k < N, download_audio is      *)
(* called on exactly the first k videos, in their order, each once; the    *)
(* j-th result is about the j-th video; no later video is ever attempted.  *)
C4_FirstK ==
    (MaxGiven /\ pc \in {"downloading", "sleeping", "returned", "interrupted"}
        /\ max_videos[1] < Len(playlist_info.videos)) =>
        LET k == max_videos[1]
            all == playlist_info.videos
        IN  /\ Len(attempts) <= k
            /\ attempts = SubSeq(UrlsOf(all), 1, Len(attempts))
            /\ \A j \in 1..Len(results) : results[j].video = all[j]
            /\ (pc = "returned" => Len(attempts) = k /\ Len(results) = k)

\* two of three videos were attempted and the report is back
C4_Witness ==
    /\ pc = "returned"
    /\ MaxGiven
    /\ max_videos[1] = 2
    /\ Len(playlist_info.videos) = 3
    /\ Len(attempts) = 2

(* C5: whenever a call of download_playlist ends, by returning its report  *)
(* or by an exception at any point (also the interrupt during a download), *)
(* self.output_dir and the output template are what they were when the     *)
(* call began.                                                             *)
C5_Restored ==
    pc \in {"returned", "raised", "interrupted"} =>
        /\ output_dir = entry_output_dir
        /\ outtmpl = entry_outtmpl

(* C6: with a positive delay and k videos attempted, time.sleep is called  *)
(* after every video but the last, whether the video succeeded or failed:  *)
(* k-1 pauses for k >= 1.                                                  *)
C6_PauseBetweenAll ==
    (pc = "returned" /\ delay_between_downloads > 0
        /\ Len(videos_to_download) >= 1) =>
        sleeps = [k \in 1..(Len(videos_to_download) - 1) |-> k]

(* C10: get_playlist_info raises when the extractor has no entries: the    *)
(* key missing, the list empty, or every entry None; it returns no         *)
(* playlist without videos, and download_playlist returns no report with   *)
(* total_videos = 0.                                                       *)
C10_NeverEmpty ==
    /\ (info.answer = "no_entries_key" => pc = "raised")
    /\ (info.answer = "entries" => playlist_info.videos # <<>>)
    /\ (pc = "returned" => report[1].total_videos # 0)

----------------------------------------------------------------------------
(* download_audio, with the output directory it looks the file up in *)

SONG == <<"S","o","n","g">>
\* "My: Song / Mix?"
MY_SONG_MIX ==
    <<"M","y",":"," ","S","o","n","g"," ","/"," ","M","i","x","?">>
OUT_MP3 == <<"o","u","t",".","m","p","3">>
OLD_A == <<"o","l","d","_","a",".","m","p","3">>
OLD_B == <<"o","l","d","_","b",".","m","p","3">>
NOTES == <<"n","o","t","e","s",".","t","x","t">>
TRACK_MP3 == <<"t","r","a","c","k",".","m","p","3">>
WEBM == <<".","w","e","b","m">>

\* str.replace(p, ''): every occurrence of p, left to right, is dropped
RECURSIVE RemoveAll(_, _)
RemoveAll(s, p) ==
    IF s = <<>> THEN <<>>
    ELSE IF StartsWith(s, p) THEN RemoveAll(Drop(s, Len(p)), p)
    ELSE <<Head(s)>> \o RemoveAll(Tail(s), p)

EndsWith(s, p) ==
    Len(s) >= Len(p) /\ SubSeq(s, Len(s) - Len(p) + 1, Len(s)) = p

\* a file of the directory: its name, the time it was created and the time
\* its inode last changed (a rename or chmod moves the latter)
FileStamps == {x \in (1..MaxStamp) \X (1..MaxStamp) : x[1] <= x[2]}

\* the time at which extract_info writes: after every earlier stamp
Now == MaxStamp + 1

\* what the output directory can hold before the call
DirContents ==
    { a \cup b \cup c :
        a \in {{}} \cup {{[name |-> OLD_A, born |-> x[1], changed |-> x[2]]} :
                            x \in FileStamps},
        b \in {{}} \cup {{[name |-> OLD_B, born |-> x[1], changed |-> x[2]]} :
                            x \in FileStamps},
        c \in {{}, {[name |-> NOTES, born |-> 1, changed |-> 1]}} }

\* the locators download_audio is called with
AudioCallUrls ==
    { WATCH_URL \o ID_FULL,
      HTTPS \o WWW \o YT_PLAYLIST \o ID_LIST }

\* info.get('title', 'Unknown') of the videos tried
VideoTitles == {SONG, MY_SONG_MIX}

\* final_path.exists()
Exists(files, name) == \E f \in files : f.name = name

\* self.output_dir.glob("*.mp3")
Mp3Files(files) == {f \in files : EndsWith(f.name, MP3)}

\* os.path.getctime: the creation time on Windows, the time of the last
\* metadata change on Unix
getctime(pf, f) == IF pf = "windows" THEN f.born ELSE f.changed

\* max(mp3_files, key=os.path.getctime): the files max can return (the
\* first of the greatest in glob's order, which is any of them)
NewestByCtime(pf, files) ==
    {f \in files : \A g \in files : getctime(pf, g) <= getctime(pf, f)}

\* the file extract_info(download=True) leaves in the directory
Written(files, name) ==
    {f \in files : f.name # name}
        \cup {[name |-> name, born |-> Now, changed |-> Now]}

\* expected_final_name, from output_filename if given, else from the title
ExpectedName(filename, title) ==
    IF filename # <<>>
    THEN sanitize_filename(RemoveAll(filename, MP3)) \o MP3
    ELSE sanitize_filename(title) \o MP3

\* a call of download_audio(url, output_filename) on an instance whose
\* output directory holds some files
InitAudio ==
    /\ pc = "audio_call"
    /\ url \in AudioCallUrls
    /\ output_filename \in {<<>>, OUT_MP3}
    /\ platform \in {"posix", "windows"}
    /\ dir_files \in DirContents
    /\ video_title = <<>>
    /\ expected_final_name = <<>>
    /\ audio_result = <<>>
    /\ extract_log = "none"
    /\ urls = <<>>
    /\ multi_result = <<>>
    /\ args = NoArgs
    /\ exit_code = <<>>
    /\ loc = NoLoc
    /\ audio_status = "none"
    /\ playlist_status = "none"
    /\ extractor_calls = 0
    /\ name_in = <<>>
    /\ name_out = <<>>
    /\ name_again = <<>>
    /\ PlaylistIdle

\* download_audio refuses the locator: ValueError, before the try block
DownloadAudioRefused ==
    /\ pc = "audio_call"
    /\ download_audio_check(url) = "ValueError"
    /\ audio_status' = "ValueError"
    /\ pc' = "audio_done"
    /\ UNCHANGED <<loc, url, playlist_status, extractor_calls, sanVars, plVars,
                   audVars, multiVars, mainVars>>

\* download_audio accepts the locator and calls get_video_info, which asks
\* the extractor
DownloadAudioStarts ==
    /\ pc = "audio_call"
    /\ download_audio_check(url) = "accepted"
    /\ extractor_calls' = extractor_calls + 1
    /\ pc' = "audio_info"
    /\ UNCHANGED <<loc, url, audio_status, playlist_status, sanVars, plVars,
                   audVars, multiVars, mainVars>>

\* get_video_info: extract_info raises; get_video_info raises Exception
\* and download_audio's 'except Exception' raises Exception in turn
VideoInfoFails ==
    /\ pc = "audio_info"
    /\ extract_log' = "info_raised"
    /\ audio_status' = "Exception"
    /\ pc' = "audio_done"
    /\ UNCHANGED <<loc, url, playlist_status, extractor_calls, sanVars, plVars,
                   platform, dir_files, output_filename, video_title,
                   expected_final_name, audio_result, multiVars, mainVars>>

\* the interrupt arrives during get_video_info: no handler catches it
VideoInfoInterrupted ==
    /\ pc = "audio_info"
    /\ extract_log' = "info_interrupted"
    /\ audio_status' = "KeyboardInterrupt"
    /\ pc' = "audio_done"
    /\ UNCHANGED <<loc, url, playlist_status, extractor_calls, sanVars, plVars,
                   platform, dir_files, output_filename, video_title,
                   expected_final_name, audio_result, multiVars, mainVars>>

\* get_video_info returns the title; download_audio derives the expected
\* name and calls extract_info(url, download=True)
VideoInfoReturns ==
    /\ pc = "audio_info"
    /\ \E title \in VideoTitles :
          /\ video_title' = title
          /\ expected_final_name' = ExpectedName(output_filename, title)
    /\ extractor_calls' = extractor_calls + 1
    /\ pc' = "audio_extract"
    /\ UNCHANGED <<loc, url, audio_status, playlist_status, sanVars, plVars,
                   platform, dir_files, output_filename, audio_result,
                   extract_log, multiVars, mainVars>>

\* extract_info(url, download=True) raises (yt_dlp DownloadError,
\* FileNotFoundError or another Exception): download_audio raises Exception
ExtractFails ==
    /\ pc = "audio_extract"
    /\ extract_log' = "raised"
    /\ audio_status' = "Exception"
    /\ pc' = "audio_done"
    /\ UNCHANGED <<loc, url, playlist_status, extractor_calls, sanVars, plVars,
                   platform, dir_files, output_filename, video_title,
                   expected_final_name, audio_result, multiVars, mainVars>>

\* the interrupt arrives during the download
ExtractInterrupted ==
    /\ pc = "audio_extract"
    /\ extract_log' = "interrupted"
    /\ audio_status' = "KeyboardInterrupt"
    /\ pc' = "audio_done"
    /\ UNCHANGED <<loc, url, playlist_status, extractor_calls, sanVars, plVars,
                   platform, dir_files, output_filename, video_title,
                   expected_final_name, audio_result, multiVars, mainVars>>

\* extract_info returns, having written the expected file, an mp3 under
\* another name, a file that is no mp3, or nothing; download_audio looks
\* the file up: the expected path if it exists, else the mp3 of the
\* directory with the greatest getctime, else Exception
ExtractReturns ==
    /\ pc = "audio_extract"
    /\ \E w \in {"expected", "renamed", "not_mp3", "nothing"} :
          LET files == CASE w = "expected" -> Written(dir_files, expected_final_name)
                         [] w = "renamed"  -> Written(dir_files, TRACK_MP3)
                         [] w = "not_mp3"  -> Written(dir_files, SONG \o WEBM)
                         [] OTHER          -> dir_files
          IN  /\ extract_log' = w
              /\ dir_files' = files
              /\ IF Exists(files, expected_final_name)
                 THEN /\ audio_result' = <<Append(output_dir, expected_final_name)>>
                      /\ audio_status' = "returned"
                 ELSE IF Mp3Files(files) # {}
                 THEN /\ \E f \in NewestByCtime(platform, Mp3Files(files)) :
                            audio_result' = <<Append(output_dir, f.name)>>
                      /\ audio_status' = "returned"
                 ELSE /\ audio_result' = <<>>
                      /\ audio_status' = "Exception"
    /\ pc' = "audio_done"
    /\ UNCHANGED <<loc, url, playlist_status, extractor_calls, sanVars, plVars,
                   platform, output_filename, video_title, expected_final_name,
                   multiVars, mainVars>>

NextAudio ==
    \/ DownloadAudioRefused
    \/ DownloadAudioStarts
    \/ VideoInfoFails
    \/ VideoInfoInterrupted
    \/ VideoInfoReturns
    \/ ExtractFails
    \/ ExtractInterrupted
    \/ ExtractReturns

SpecAudio == InitAudio /\ [][NextAudio]_vars

\* the mp3 files of the directory none of which was created later
LatestCreated(files) ==
    {f \in Mp3Files(files) : \A g \in Mp3Files(files) : g.born <= f.born}

(* C13: after extract_info(download=True) returns, download_audio returns  *)
(* the expected path {target}.mp3 if that file exists; else, if the        *)
(* directory holds an mp3, the most recently created mp3; else it raises.  *)
(* So a returned path names a file of the output directory, and            *)
(* download_audio raises whenever the extractor call raises.               *)
C13_FileLookup ==
    pc = "audio_done" =>
        /\ (extract_log \in {"expected", "renamed", "not_mp3", "nothing"} =>
              IF Exists(dir_files, expected_final_name)
              THEN /\ audio_status = "returned"
                   /\ audio_result = <<Append(output_dir, expected_final_name)>>
              ELSE IF Mp3Files(dir_files) # {}
              THEN /\ audio_status = "returned"
                   /\ \E f \in LatestCreated(dir_files) :
                         audio_result = <<Append(output_dir, f.name)>>
              ELSE audio_status = "Exception")
        /\ (audio_status = "returned" =>
              \E f \in dir_files : audio_result = <<Append(output_dir, f.name)>>)
        /\ (extract_log \in {"info_raised", "raised"} =>
              audio_status = "Exception")

----------------------------------------------------------------------------
(* download_multiple *)

\* the locators the list handed to download_multiple is made of: two
\* videos and a playlist page, which download_audio refuses
MultiUrls ==
    { WATCH_URL \o Append(ID_STEM, "1"),
      WATCH_URL \o Append(ID_STEM, "2"),
      HTTPS \o WWW \o YT_PLAYLIST \o ID_LIST }

\* {"url": url, "file": result, "status": "success"}
multi_success_entry(u, file) ==
    [url |-> u, file |-> <<file>>, status |-> "success", error |-> <<>>]

\* {"url": url, "file": None, "status": "failed", "error": str(e)}
multi_failed_entry(u, e) ==
    [url |-> u, file |-> <<>>, status |-> "failed", error |-> <<e>>]

\* everything download_multiple does not touch
MultiFrame ==
    UNCHANGED <<selfVars, argVars, info, original_output_dir, playlist_info,
                videos_to_download, successful_downloads, report, sleeps,
                entryVars, sanVars, locVars, audVars, urls, mainVars>>

InitMultiple ==
    /\ pc = "multi_call"
    /\ urls \in SeqsUpTo(MultiUrls, MaxUrls)
    /\ multi_result = <<>>
    /\ platform = "posix"
    /\ dir_files = {}
    /\ output_filename = <<>>
    /\ video_title = <<>>
    /\ expected_final_name = <<>>
    /\ audio_result = <<>>
    /\ extract_log = "none"
    /\ args = NoArgs
    /\ exit_code = <<>>
    /\ loc = NoLoc
    /\ url = <<>>
    /\ audio_status = "none"
    /\ playlist_status = "none"
    /\ extractor_calls = 0
    /\ name_in = <<>>
    /\ name_out = <<>>
    /\ name_again = <<>>
    /\ PlaylistIdle

\* the for loop of download_multiple has run out of urls: return results
MultiDone(res) ==
    /\ multi_result' = <<res>>
    /\ pc' = "returned"

\* download_multiple(urls) is called: results = [], the loop starts
MultiCalled ==
    /\ pc = "multi_call"
    /\ results' = <<>>
    /\ IF urls = <<>>
       THEN /\ MultiDone(<<>>)
            /\ i' = i
       ELSE /\ i' = 1
            /\ pc' = "multi_downloading"
            /\ multi_result' = multi_result
    /\ UNCHANGED <<attempts, outcomes, raised>>
    /\ MultiFrame

\* download_audio(url) returned a path: a success entry; the next url
\* follows at once
MultiItemDownloaded ==
    /\ pc = "multi_downloading"
    /\ LET u   == urls[i]
           res == Append(results,
                         multi_success_entry(u, FileFor(output_dir, [url |-> u])))
       IN  /\ download_audio_check(u) = "accepted"
           /\ attempts' = Append(attempts, u)
           /\ outcomes' = Append(outcomes, "returned")
           /\ results' = res
           /\ IF i < Len(urls)
              THEN /\ i' = i + 1
                   /\ pc' = "multi_downloading"
                   /\ multi_result' = multi_result
              ELSE /\ MultiDone(res)
                   /\ i' = i
    /\ raised' = raised
    /\ MultiFrame

\* the mutant: the exception leaves download_multiple
MultiItemFailed_Propagates ==
    /\ pc = "multi_downloading"
    /\ attempts' = Append(attempts, urls[i])
    /\ outcomes' = Append(outcomes, "Exception")
    /\ raised' = "Exception"
    /\ pc' = "raised"
    /\ UNCHANGED <<i, results, multi_result>>
    /\ MultiFrame

\* download_audio(url) raised an Exception (the ValueError of its locator
\* check, or the Exception it wraps a failure in): a failed entry with the
\* message, and the loop goes on
MultiItemFailed ==
    /\ pc = "multi_downloading"
    /\ LET u   == urls[i]
           e   == IF download_audio_check(u) = "ValueError"
                  THEN "ValueError" ELSE "Exception"
           res == Append(results, multi_failed_entry(u, e))
       IN  /\ attempts' = Append(attempts, u)
           /\ outcomes' = Append(outcomes, e)
           /\ results' = res
           /\ IF i < Len(urls)
              THEN /\ i' = i + 1
                   /\ pc' = "multi_downloading"
                   /\ multi_result' = multi_result
              ELSE /\ MultiDone(res)
                   /\ i' = i
    /\ raised' = raised
    /\ MultiFrame

\* the interrupt arrives while download_audio runs: 'except Exception'
\* does not catch KeyboardInterrupt
MultiItemInterrupted ==
    /\ pc = "multi_downloading"
    /\ download_audio_check(urls[i]) = "accepted"
    /\ attempts' = Append(attempts, urls[i])
    /\ outcomes' = Append(outcomes, "KeyboardInterrupt")
    /\ raised' = "KeyboardInterrupt"
    /\ pc' = "interrupted"
    /\ UNCHANGED <<i, results, multi_result>>
    /\ MultiFrame

NextMultiple ==
    \/ MultiCalled
    \/ MultiItemDownloaded
    \/ MultiItemFailed
    \/ MultiItemInterrupted

SpecMultiple == InitMultiple /\ [][NextMultiple]_vars

(* C11: download_multiple returns one result per locator, in the order of  *)
(* the locators: success with the path when download_audio returned,       *)
(* failed with the message and no path when it raised (also for a locator  *)
(* it refuses); a failure keeps no later locator from being attempted, no  *)
(* error leaves download_multiple, and no pause is made between items.     *)
C11_OnePerLocator ==
    /\ pc # "raised"
    /\ raised \notin {"Exception", "ValueError"}
    /\ sleeps = <<>>
    /\ \A k \in 1..Len(outcomes) :
          outcomes[k] \in {"Exception", "ValueError"} =>
              (pc = "multi_downloading" => i > k)
    /\ pc = "returned" =>
          LET r == multi_result[1]
          IN  /\ Len(r) = Len(urls)
              /\ attempts = urls
              /\ \A k \in 1..Len(urls) :
                    /\ r[k].url = urls[k]
                    /\ (outcomes[k] = "returned" =>
                          /\ r[k].status = "success"
                          /\ r[k].file # <<>>)
                    /\ (outcomes[k] \in {"Exception", "ValueError"} =>
                          /\ r[k].status = "failed"
                          /\ r[k].file = <<>>
                          /\ r[k].error # <<>>)
                    /\ (download_audio_check(urls[k]) = "ValueError" =>
                          r[k].status = "failed")

\* an invalid locator first, a failed download next, a success last, and
\* the list is back
C11_Witness ==
    /\ pc = "returned"
    /\ Len(urls) = 3
    /\ outcomes = <<"ValueError", "Exception", "returned">>
    /\ Len(multi_result[1]) = 3

----------------------------------------------------------------------------
(* main: the command line *)

\* the url arguments tried: a playlist page, a video, a video of a
\* playlist, and a locator of another site
MainUrls ==
    { HTTPS \o WWW \o YT_PLAYLIST \o ID_LIST,
      WATCH_URL \o ID_FULL,
      WATCH_URL \o ID_FULL \o AMP_LIST \o ID_LIST,
      HTTPS \o WWW \o VIMEO \o COM }

\* the namespaces parse_args returns
MainArgs ==
    [url : MainUrls, output : {<<>>, OUT_MP3}, directory : {DOWNLOADS, MUSIC},
     playlist : BOOLEAN, max_videos : {<<>>, <<1>>}, delay : {0, 1}]

\* the process has been started; no instance exists yet
InitMain ==
    /\ pc = "main_parse"
    /\ platform \in {"posix", "windows"}
    /\ dir_files = {}
    /\ output_filename = <<>>
    /\ video_title = <<>>
    /\ expected_final_name = <<>>
    /\ audio_result = <<>>
    /\ extract_log = "none"
    /\ urls = <<>>
    /\ multi_result = <<>>
    /\ args = NoArgs
    /\ exit_code = <<>>
    /\ loc = NoLoc
    /\ url = <<>>
    /\ audio_status = "none"
    /\ playlist_status = "none"
    /\ extractor_calls = 0
    /\ name_in = <<>>
    /\ name_out = <<>>
    /\ name_again = <<>>
    /\ PlaylistIdle

\* what no step of main itself changes
MainFrame ==
    UNCHANGED <<sanVars, locVars, selfVars, argVars, info, localVars, report,
                logVars, entryVars, audVars, multiVars>>

\* the process ends with the exit status code
MainExit(code) ==
    /\ exit_code' = <<code>>
    /\ pc' = "exited"

\* args = parser.parse_args() returns the namespace; main enters its try
MainParsed ==
    /\ pc = "main_parse"
    /\ \E a \in MainArgs : args' = a
    /\ pc' = "main_try"
    /\ UNCHANGED <<raised, exit_code>>
    /\ MainFrame

\* parse_args refuses the command line (no url, --max-videos not an int):
\* parser.error prints the usage and exits 2, outside the try
MainUsageError ==
    /\ pc = "main_parse"
    /\ raised' = "ArgumentError"
    /\ MainExit(2)
    /\ args' = args
    /\ MainFrame

\* parse_args meets -h: it prints the help and exits 0
MainHelp ==
    /\ pc = "main_parse"
    /\ MainExit(0)
    /\ UNCHANGED <<raised, args>>
    /\ MainFrame

\* the interrupt arrives while the module is imported or the command line
\* parsed, before the try: no handler is in place, the interpreter ends
\* the process the way an unhandled SIGINT does
MainParseInterrupted ==
    /\ pc = "main_parse"
    /\ raised' = "KeyboardInterrupt"
    /\ MainExit(IF platform = "windows" THEN -1073741510 ELSE 130)
    /\ args' = args
    /\ MainFrame

\* YouTubeAudioDownloader(output_dir=args.directory) raises (mkdir fails,
\* FFmpeg not found): except Exception, exit 1
MainConstructFails ==
    /\ pc = "main_try"
    /\ raised' = "Exception"
    /\ MainExit(1)
    /\ args' = args
    /\ MainFrame

\* the interrupt arrives during the construction: except KeyboardInterrupt
MainConstructInterrupted ==
    /\ pc = "main_try"
    /\ raised' = "KeyboardInterrupt"
    /\ MainExit(1)
    /\ args' = args
    /\ MainFrame

\* is_playlist = args.playlist or downloader.is_playlist_url(args.url)
is_playlist(a) == a.playlist \/ is_playlist_url(a.url)

\* the instance is made and main calls download_playlist(args.url,
\* max_videos=args.max_videos, delay_between_downloads=args.delay), which
\* checks the locator
MainCallsPlaylist ==
    /\ pc = "main_try"
    /\ is_playlist(args)
    /\ output_dir' = <<args.directory>>
    /\ outtmpl' = TemplateIn(<<args.directory>>)
    /\ playlist_url' = args.url
    /\ max_videos' = args.max_videos
    /\ delay_between_downloads' = args.delay
    /\ entry_output_dir' = <<args.directory>>
    /\ entry_outtmpl' = TemplateIn(<<args.directory>>)
    /\ IF download_playlist_check(args.url) = "accepted"
       THEN /\ pc' = "analyzing"
            /\ raised' = raised
       ELSE /\ pc' = "raised"
            /\ raised' = "ValueError"
    /\ UNCHANGED <<info, localVars, report, logVars, sanVars, locVars, audVars,
                   multiVars, mainVars>>

\* the instance is made and main calls download_audio(args.url, args.output)
MainCallsAudio ==
    /\ pc = "main_try"
    /\ ~is_playlist(args)
    /\ output_dir' = <<args.directory>>
    /\ outtmpl' = TemplateIn(<<args.directory>>)
    /\ url' = args.url
    /\ output_filename' = args.output
    /\ pc' = "audio_call"
    /\ UNCHANGED <<argVars, info, localVars, report, raised, logVars, entryVars,
                   sanVars, loc, audio_status, playlist_status, extractor_calls,
                   platform, dir_files, video_title, expected_final_name,
                   audio_result, extract_log, multiVars, mainVars>>

\* the selected operation has returned to main
OperationReturned ==
    \/ pc = "returned"
    \/ pc = "audio_done" /\ audio_status = "returned"

\* the operation returned: main prints the summary and returns, status 0
MainCompleted ==
    /\ OperationReturned
    /\ MainExit(0)
    /\ UNCHANGED <<raised, args>>
    /\ MainFrame

\* the interrupt arrives while main prints the summary
MainReportInterrupted ==
    /\ OperationReturned
    /\ raised' = "KeyboardInterrupt"
    /\ MainExit(1)
    /\ args' = args
    /\ MainFrame

\* the operation raised an Exception: except Exception, sys.exit(1)
MainFatal ==
    /\ \/ pc = "raised"
       \/ pc = "audio_done" /\ audio_status \in {"Exception", "ValueError"}
    /\ MainExit(1)
    /\ UNCHANGED <<raised, args>>
    /\ MainFrame

\* the operation was left by a KeyboardInterrupt: except KeyboardInterrupt,
\* sys.exit(1)
MainCancelled ==
    /\ \/ pc = "interrupted"
       \/ pc = "audio_done" /\ audio_status = "KeyboardInterrupt"
    /\ raised' = "KeyboardInterrupt"
    /\ MainExit(1)
    /\ args' = args
    /\ MainFrame

NextMain ==
    \/ MainParsed
    \/ MainUsageError
    \/ MainHelp
    \/ MainParseInterrupted
    \/ MainConstructFails
    \/ MainConstructInterrupted
    \/ MainCallsPlaylist
    \/ MainCallsAudio
    \/ PlaylistInfoFails
    \/ PlaylistInfoInterrupted
    \/ PlaylistInfoReturns
    \/ PlaylistDirFails
    \/ PlaylistDirCreated
    \/ ItemDownloaded
    \/ ItemFailed
    \/ ItemInterrupted
    \/ SleepOver
    \/ SleepInterrupted
    \/ DownloadAudioRefused
    \/ DownloadAudioStarts
    \/ VideoInfoFails
    \/ VideoInfoInterrupted
    \/ VideoInfoReturns
    \/ ExtractFails
    \/ ExtractInterrupted
    \/ ExtractReturns
    \/ MainCompleted
    \/ MainReportInterrupted
    \/ MainFatal
    \/ MainCancelled

SpecMain == InitMain /\ [][NextMain]_vars

\* an interrupt has arrived in this run
Interrupted ==
    raised = "KeyboardInterrupt" \/ audio_status = "KeyboardInterrupt"

\* the run met a fatal error
Fatal ==
    \/ raised \in {"Exception", "ValueError", "ArgumentError"}
    \/ audio_status \in {"Exception", "ValueError"}

\* the interrupt of an item's download is the last thing attempted and has
\* no entry in results
InterruptNotRecorded ==
    \A k \in 1..Len(outcomes) :
        outcomes[k] = "KeyboardInterrupt" =>
            /\ k = Len(outcomes)
            /\ Len(results) = k - 1
            /\ pc \in {"interrupted", "exited"}

\* the operation main selected returned normally in this run
ReturnedNormally ==
    report # <<>> \/ audio_status = "returned"

(* C12: an interrupt arriving at any point of a run of the command line is *)
(* never recorded as an item's failure, nothing is attempted after it, and *)
(* the process ends with exit code 1; the process exits 0 only when the    *)
(* selected operation returned normally, and exits 1 on every fatal error. *)
C12_InterruptExitsOne ==
    /\ InterruptNotRecorded
    /\ (Interrupted => pc \in {"interrupted", "audio_done", "exited"})
    /\ pc = "exited" =>
          /\ (Interrupted => exit_code = <<1>>)
          /\ (exit_code = <<0>> => ReturnedNormally)
          /\ (Fatal => exit_code = <<1>>)

\* the part of C12 about the runs that reached the try block of main
C12_InsideTry ==
    /\ InterruptNotRecorded
    /\ (Interrupted => pc \in {"interrupted", "audio_done", "exited"})
    /\ (pc = "exited" /\ args # NoArgs) =>
          /\ (Interrupted => exit_code = <<1>>)
          /\ (exit_code = <<0>> => ReturnedNormally)
          /\ (Fatal => exit_code = <<1>>)

====
